---- MODULE Spec2Model ----
(***************************************************************************)
(* Model of scrape_nccu_lib_dynamic and the __main__ block of index.py:    *)
(* the paginated crawl loop over a Selenium session, the per-page header   *)
(* and row extraction, the try/except/finally structure, the construction  *)
(* of the pandas DataFrame and the conditional save to CSV.                *)
(*                                                                         *)
(* A rendered table is a record                                            *)
(*     [present, thead, tbody, body]                                       *)
(* thead is the sequence of <tr> inside <thead> (empty: no <thead>), body  *)
(* the sequence of the other <tr>, tbody tells whether those are wrapped   *)
(* in a <tbody>.  A <tr> is the sequence of its cells' tag names.  The     *)
(* text of the c-th cell of the r-th <tr> of page p is the token           *)
(* <<p, r, c>>: texts are opaque and pairwise distinct.                    *)
(*                                                                         *)
(* print calls are not modelled (they change no state).                    *)
(***************************************************************************)
EXTENDS Integers, Sequences, FiniteSets, TLC

VARIABLES
    pc,            \* position of the control thread
    max_pages,     \* argument of scrape_nccu_lib_dynamic
    page_num,      \* loop variable of line 52 (0: not yet bound)
    all_data,      \* line 28
    headers_list,  \* line 29
    table,         \* line 72 (NoTable: soup.find returned None)
    rows,          \* line 97/100: indices of the <tr> to extract
    i,             \* position of the for loop of line 106 in rows
    pending,       \* an exception is propagating out of the try of line 51
    df,            \* the DataFrame of lines 141-151
    output,        \* the CSV file of line 193
    trace,         \* calls made on the browser and the clock, in order
    outcomes,      \* how each finished page ended
    startData      \* all_data as it was when the current page began

vars == <<pc, max_pages, page_num, all_data, headers_list, table, rows, i,
          pending, df, output, trace, outcomes, startData>>

-----------------------------------------------------------------------------
(* Bounds and inputs *)

MaxPages == 2

H2 == <<"th", "th">>
D1 == <<"td">>
D2 == <<"td", "td">>
D3 == <<"td", "td", "td">>

Theads == {<<>>, <<H2>>}

Bodies == {<<>>, <<D2>>, <<D2, D2>>, <<D2, D3>>, <<D2, D1>>, <<H2, D2>>}

NoTable == [present |-> FALSE, thead |-> <<>>, tbody |-> FALSE, body |-> <<>>]

Tables == [present : {TRUE}, thead : Theads, tbody : BOOLEAN, body : Bodies]

FetchErrors == {"Timeout", "NoSuchElement", "Unknown"}

StepErrors == {"NoSuchElement", "Unknown"}

-----------------------------------------------------------------------------
(* bs4 and pandas, as the function uses them *)

\* table.find_all("tr"): every <tr> of the table in document order
FindAllTr(t) == t.thead \o t.body

\* [c.get_text(strip=True) for c in tr.find_all(kinds)] for the r-th <tr>
CellTexts(p, t, r, kinds) ==
    LET tr  == FindAllTr(t)[r]
        idx == SelectSeq([c \in 1..Len(tr) |-> c], LAMBDA c : tr[c] \in kinds)
    IN  [k \in 1..Len(idx) |-> <<p, r, idx[k]>>]

RECURSIVE TextsOfRows(_, _, _, _)
\* the texts of the cells of the <tr> with indices rs, concatenated
TextsOfRows(p, t, rs, kinds) ==
    IF rs = <<>> THEN <<>>
    ELSE CellTexts(p, t, Head(rs), kinds) \o TextsOfRows(p, t, Tail(rs), kinds)

\* lines 83-85: table.find("thead"), else table.find("tr"); the <tr> indices
\* the found element spans (empty: nothing found)
HeaderRow(t) ==
    IF t.thead # <<>> THEN [k \in 1..Len(t.thead) |-> k]
    ELSE IF FindAllTr(t) # <<>> THEN <<1>>
    ELSE <<>>

\* lines 86-90
HeaderCells(p, t) == TextsOfRows(p, t, HeaderRow(t), {"th", "td"})

\* mutant of CaptureHeader: the header is taken from every page
CaptureHeaderAlways(p, t, hl) ==
    IF HeaderRow(t) # <<>> THEN HeaderCells(p, t) ELSE hl

\* lines 82-93: headers_list after the header step of page p
CaptureHeader(p, t, hl) ==
    IF p = 1 /\ hl = <<>> /\ HeaderRow(t) # <<>>
    THEN HeaderCells(p, t)
    ELSE hl

\* lines 96-100
DataRows(t, hl) ==
    LET n    == Len(FindAllTr(t))
        h    == Len(t.thead)
        base == IF t.tbody THEN [k \in 1..(n - h) |-> k + h]
                ELSE [k \in 1..n |-> k]
    IN  IF hl # <<>> /\ ~t.tbody /\ base # <<>> THEN Tail(base) ELSE base

\* line 107
Cols(p, t, r) == CellTexts(p, t, r, {"td"})

NoneCell == <<0, 0, 0>>

RECURSIVE MaxWidth(_)
MaxWidth(data) ==
    IF data = <<>> THEN 0
    ELSE LET w == MaxWidth(Tail(data))
         IN  IF Len(Head(data)) > w THEN Len(Head(data)) ELSE w

\* pandas pads the short rows of a list of lists with None
Pad(data, w) ==
    [r \in 1..Len(data) |->
        [c \in 1..w |-> IF c <= Len(data[r]) THEN data[r][c] ELSE NoneCell]]

NoFrame == [kind |-> "none", columns |-> <<>>, data |-> <<>>]

\* pd.DataFrame()
EmptyFrame == [kind |-> "empty", columns |-> <<>>, data |-> <<>>]

\* pd.DataFrame(data): positional column labels 0..w-1
PositionalFrame(data) ==
    LET w == MaxWidth(data)
    IN  [kind |-> "positional", columns |-> [c \in 1..w |-> c - 1],
         data |-> Pad(data, w)]

\* pd.DataFrame(data, columns=cols): ValueError unless the widest row has
\* exactly len(cols) cells
NamedFrame(data, cols) ==
    IF MaxWidth(data) # Len(cols)
    THEN [kind |-> "ValueError", columns |-> <<>>, data |-> <<>>]
    ELSE [kind |-> "named", columns |-> cols, data |-> Pad(data, Len(cols))]

\* mutant of BuildDF: with no rows, the header still names the columns
BuildDFKeepsHeader(data, hl) ==
    IF data # <<>>
    THEN IF hl # <<>> /\ Len(data[1]) = Len(hl)
         THEN NamedFrame(data, hl)
         ELSE PositionalFrame(data)
    ELSE IF hl # <<>>
         THEN [kind |-> "named", columns |-> hl, data |-> <<>>]
         ELSE EmptyFrame

\* lines 141-151
BuildDF(data, hl) ==
    IF data # <<>>
    THEN IF hl # <<>> /\ Len(data[1]) = Len(hl)
         THEN NamedFrame(data, hl)
         ELSE PositionalFrame(data)
    ELSE EmptyFrame

\* DataFrame.empty
IsEmptyFrame(d) == d.columns = <<>> \/ d.data = <<>>

-----------------------------------------------------------------------------
(* The control thread *)

InTry == {"for", "get", "parse", "check", "rows", "extract"}

\* how a page ended: the branch taken, the header cells its table offered
\* (none when no table was located) and the number of <tr> selected
Outcome(kind, n) ==
    [kind |-> kind,
     hdr |-> IF table.present THEN HeaderCells(page_num, table) ELSE <<>>,
     nrows |-> n]

Init ==
    /\ pc = "for"
    /\ max_pages \in 0..MaxPages
    /\ page_num = 0
    /\ all_data = <<>>
    /\ headers_list = <<>>
    /\ table = NoTable
    /\ rows = <<>>
    /\ i = 1
    /\ pending = FALSE
    /\ df = NoFrame
    /\ output = NoFrame
    /\ trace = <<>>
    /\ outcomes = <<>>
    /\ startData = <<>>

\* line 52: the next index of range(1, max_pages + 1).  table, rows and i
\* of the previous iteration are dead (each is assigned before it is read
\* again), so they are cleared here.
ForNext ==
    /\ pc = "for"
    /\ page_num < max_pages
    /\ page_num' = page_num + 1
    /\ pc' = "get"
    /\ table' = NoTable
    /\ rows' = <<>>
    /\ i' = 1
    /\ startData' = all_data
    /\ UNCHANGED <<max_pages, all_data, headers_list, pending, df, output,
                   trace, outcomes>>

\* mutant of ForEnd: a failed page ends the loop (break for continue)
ForEndOnFailure ==
    /\ pc = "for"
    /\ \/ page_num >= max_pages
       \/ outcomes # <<>> /\ outcomes[Len(outcomes)].kind \in FetchErrors
    /\ pc' = "finally"
    /\ UNCHANGED <<max_pages, page_num, all_data, headers_list, table, rows,
                   i, pending, df, output, trace, outcomes, startData>>

\* line 52: the range is exhausted
ForEnd ==
    /\ pc = "for"
    /\ page_num >= max_pages
    /\ pc' = "finally"
    /\ UNCHANGED <<max_pages, page_num, all_data, headers_list, table, rows,
                   i, pending, df, output, trace, outcomes, startData>>

\* lines 57-63: driver.get and the wait for the marker return
FetchOk ==
    /\ pc = "get"
    /\ trace' = Append(trace, <<"get", page_num>>)
    /\ pc' = "parse"
    /\ UNCHANGED <<max_pages, page_num, all_data, headers_list, table, rows,
                   i, pending, df, output, outcomes, startData>>

\* lines 57-62 raise; lines 118-131 log and continue
FetchFail ==
    /\ pc = "get"
    /\ \E e \in FetchErrors :
          outcomes' = Append(outcomes, Outcome(e, 0))
    /\ trace' = Append(trace, <<"get", page_num>>)
    /\ pc' = "for"
    /\ UNCHANGED <<max_pages, page_num, all_data, headers_list, table, rows,
                   i, pending, df, output, startData>>

\* lines 66-72: page_source, BeautifulSoup, soup.find
Parse ==
    /\ pc = "parse"
    /\ \E t \in Tables \cup {NoTable} : table' = t
    /\ pc' = "check"
    /\ UNCHANGED <<max_pages, page_num, all_data, headers_list, rows, i,
                   pending, df, output, trace, outcomes, startData>>

\* mutant of NoTableContinue: the continue of line 79 is missing
NoTableFallsThrough ==
    /\ pc = "check"
    /\ ~table.present
    /\ outcomes' = Append(outcomes, Outcome("NoTable", 0))
    /\ pc' = "rows"
    /\ UNCHANGED <<max_pages, page_num, all_data, headers_list, table, rows,
                   i, pending, df, output, trace, startData>>

\* lines 74-79
NoTableContinue ==
    /\ pc = "check"
    /\ ~table.present
    /\ outcomes' = Append(outcomes, Outcome("NoTable", 0))
    /\ pc' = "for"
    /\ UNCHANGED <<max_pages, page_num, all_data, headers_list, table, rows,
                   i, pending, df, output, trace, startData>>

\* mutant of ExtractHeader: the test of line 82 without page_num == 1
ExtractHeaderWhenEmpty ==
    /\ pc = "check"
    /\ table.present
    /\ headers_list' =
          IF headers_list = <<>> /\ HeaderRow(table) # <<>>
          THEN HeaderCells(page_num, table)
          ELSE headers_list
    /\ pc' = "rows"
    /\ UNCHANGED <<max_pages, page_num, all_data, table, rows, i, pending,
                   df, output, trace, outcomes, startData>>

\* lines 82-93
ExtractHeader ==
    /\ pc = "check"
    /\ table.present
    /\ headers_list' = CaptureHeader(page_num, table, headers_list)
    /\ pc' = "rows"
    /\ UNCHANGED <<max_pages, page_num, all_data, table, rows, i, pending,
                   df, output, trace, outcomes, startData>>

\* lines 96-100 and the test of line 102 when it passes
FindRows ==
    /\ pc = "rows"
    /\ DataRows(table, headers_list) # <<>>
    /\ rows' = DataRows(table, headers_list)
    /\ i' = 1
    /\ pc' = "extract"
    /\ UNCHANGED <<max_pages, page_num, all_data, headers_list, table,
                   pending, df, output, trace, outcomes, startData>>

\* mutant of NoRowsContinue: the sleep is taken before the continue
NoRowsSleeps ==
    /\ pc = "rows"
    /\ DataRows(table, headers_list) = <<>>
    /\ rows' = <<>>
    /\ outcomes' = Append(outcomes, Outcome("NoRows", 0))
    /\ trace' = Append(trace, <<"sleep", page_num>>)
    /\ pc' = "for"
    /\ UNCHANGED <<max_pages, page_num, all_data, headers_list, table, i,
                   pending, df, output, startData>>

\* lines 96-104: no <tr> left, log and continue
NoRowsContinue ==
    /\ pc = "rows"
    /\ DataRows(table, headers_list) = <<>>
    /\ rows' = <<>>
    /\ outcomes' = Append(outcomes, Outcome("NoRows", 0))
    /\ pc' = "for"
    /\ UNCHANGED <<max_pages, page_num, all_data, headers_list, table, i,
                   pending, df, output, trace, startData>>

\* mutant of ExtractRow: the row is inserted at the front of the list
ExtractRowPrepends ==
    /\ pc = "extract"
    /\ i <= Len(rows)
    /\ all_data' =
          IF Cols(page_num, table, rows[i]) # <<>>
          THEN <<Cols(page_num, table, rows[i])>> \o all_data
          ELSE all_data
    /\ i' = i + 1
    /\ UNCHANGED <<pc, max_pages, page_num, headers_list, table, rows,
                   pending, df, output, trace, outcomes, startData>>

\* lines 106-109: one iteration of the loop over rows
ExtractRow ==
    /\ pc = "extract"
    /\ i <= Len(rows)
    /\ all_data' =
          IF Cols(page_num, table, rows[i]) # <<>>
          THEN Append(all_data, Cols(page_num, table, rows[i]))
          ELSE all_data
    /\ i' = i + 1
    /\ UNCHANGED <<pc, max_pages, page_num, headers_list, table, rows,
                   pending, df, output, trace, outcomes, startData>>

\* lines 112-116: the loop over rows is done; sleep, then the next index
Sleep ==
    /\ pc = "extract"
    /\ i > Len(rows)
    /\ trace' = Append(trace, <<"sleep", page_num>>)
    /\ outcomes' = Append(outcomes, Outcome("Ok", Len(rows)))
    /\ pc' = "for"
    /\ UNCHANGED <<max_pages, page_num, all_data, headers_list, table, rows,
                   i, pending, df, output, startData>>

\* mutant of StepError: the handler drops what was accumulated so far
StepErrorResets ==
    /\ pc \in {"parse", "check", "rows", "extract"}
    /\ pc = "check" => table.present
    /\ pc = "extract" => i <= Len(rows)
    /\ \E e \in StepErrors :
          outcomes' = Append(outcomes, Outcome(e, Len(rows)))
    /\ all_data' = <<>>
    /\ pc' = "for"
    /\ UNCHANGED <<max_pages, page_num, headers_list, table, rows,
                   i, pending, df, output, trace, startData>>

\* lines 66-72, 82-93, 96-100 or 106-109 raise an Exception (between two
\* appends of line 109 too); lines 124-131 log and continue
StepError ==
    /\ pc \in {"parse", "check", "rows", "extract"}
    /\ pc = "check" => table.present
    /\ pc = "extract" => i <= Len(rows)
    /\ \E e \in StepErrors :
          outcomes' = Append(outcomes, Outcome(e, Len(rows)))
    /\ pc' = "for"
    /\ UNCHANGED <<max_pages, page_num, all_data, headers_list, table, rows,
                   i, pending, df, output, trace, startData>>

\* a BaseException that is no Exception (KeyboardInterrupt, SystemExit)
\* reaches the control thread inside the try of line 51: no handler of
\* lines 118-131 matches it
Interrupt ==
    /\ pc \in InTry
    /\ pending' = TRUE
    /\ pc' = "finally"
    /\ UNCHANGED <<max_pages, page_num, all_data, headers_list, table, rows,
                   i, df, output, trace, outcomes, startData>>

\* mutant of Finally: driver.quit() placed after the loop instead of in the
\* finally clause, so a propagating exception skips it
QuitAfterLoopOnly ==
    /\ pc = "finally"
    /\ trace' = IF pending THEN trace ELSE Append(trace, <<"quit", 0>>)
    /\ pc' = IF pending THEN "raised" ELSE "build"
    /\ UNCHANGED <<max_pages, page_num, all_data, headers_list, table, rows,
                   i, pending, df, output, outcomes, startData>>

\* lines 133-136
Finally ==
    /\ pc = "finally"
    /\ trace' = Append(trace, <<"quit", 0>>)
    /\ pc' = IF pending THEN "raised" ELSE "build"
    /\ UNCHANGED <<max_pages, page_num, all_data, headers_list, table, rows,
                   i, pending, df, output, outcomes, startData>>

\* lines 138-153
BuildTable ==
    /\ pc = "build"
    /\ df' = BuildDF(all_data, headers_list)
    /\ pc' = IF df'.kind = "ValueError" THEN "raised" ELSE "main"
    /\ UNCHANGED <<max_pages, page_num, all_data, headers_list, table, rows,
                   i, pending, output, trace, outcomes, startData>>

\* lines 183-196: the frame is not empty; to_csv writes it or raises
SaveCsv ==
    /\ pc = "main"
    /\ ~IsEmptyFrame(df)
    /\ \E ok \in BOOLEAN : output' = IF ok THEN df ELSE output
    /\ pc' = "exit"
    /\ UNCHANGED <<max_pages, page_num, all_data, headers_list, table, rows,
                   i, pending, df, trace, outcomes, startData>>

\* lines 183, 197-198: the frame is empty, no file is written
NoSave ==
    /\ pc = "main"
    /\ IsEmptyFrame(df)
    /\ pc' = "exit"
    /\ UNCHANGED <<max_pages, page_num, all_data, headers_list, table, rows,
                   i, pending, df, output, trace, outcomes, startData>>

Run ==
    \/ ForNext
    \/ ForEnd
    \/ FetchOk
    \/ FetchFail
    \/ Parse
    \/ NoTableContinue
    \/ ExtractHeader
    \/ FindRows
    \/ NoRowsContinue
    \/ ExtractRow
    \/ Sleep
    \/ StepError
    \/ Finally
    \/ BuildTable
    \/ SaveCsv
    \/ NoSave

Next ==
    \/ Run
    \/ Interrupt

Spec == Init /\ [][Next]_vars

\* the run when nothing interrupts the control thread; each blocking call
\* returns or raises, so the thread always takes its next step
SpecRun == Init /\ [][Run]_vars /\ WF_vars(Run)

-----------------------------------------------------------------------------
(* Observations used by the properties *)

IsPrefix(s, t) == Len(s) <= Len(t) /\ SubSeq(t, 1, Len(s)) = s

\* the driver.get calls made so far, in order
Fetched == SelectSeq(trace, LAMBDA e : e[1] = "get")

Sleeps == SelectSeq(trace, LAMBDA e : e[1] = "sleep")

Quits == SelectSeq(trace, LAMBDA e : e[1] = "quit")

Failed(o) == o.kind \in FetchErrors

LastOutcome == outcomes[Len(outcomes)]

\* the loop of line 52 is over and no exception is propagating
LoopCompleted == pc \notin InTry /\ ~pending

RECURSIVE SumRows(_, _)
\* the sum of the row counts of the finished pages, the failed ones counting
\* 0 unless countFailed
SumRows(os, countFailed) ==
    IF os = <<>> THEN 0
    ELSE (IF Failed(Head(os)) /\ ~countFailed THEN 0 ELSE Head(os).nrows)
         + SumRows(Tail(os), countFailed)

\* the <tr> the loop of line 106 has been through on a page that has not
\* ended yet (one in progress, or one an interrupt cut short)
RowsDone == IF Len(outcomes) < page_num THEN i - 1 ELSE 0

RECURSIVE Extracted(_, _, _)
\* what lines 106-109 append for the <tr> with indices rs of page p
Extracted(p, t, rs) ==
    IF rs = <<>> THEN <<>>
    ELSE (IF Cols(p, t, Head(rs)) # <<>> THEN <<Cols(p, t, Head(rs))>> ELSE <<>>)
         \o Extracted(p, t, Tail(rs))

\* the pages are fetched in the order 1, 2, ..., each once, and a loop that
\* was not interrupted has fetched them all
FetchedInOrder ==
    /\ Fetched = [k \in 1..Len(Fetched) |-> <<"get", k>>]
    /\ Len(Fetched) <= page_num
    /\ ~pending => Len(Fetched) = IF pc = "get" THEN page_num - 1 ELSE page_num
    /\ LoopCompleted => Len(Fetched) = max_pages

-----------------------------------------------------------------------------
(* C1 *)

\* C1 as stated: the pages 1..N are fetched in increasing order, each exactly
\* once, and the number of accumulated rows is at most the sum of the row
\* counts of the pages, a failed page counting 0.
C1_AsStated ==
    /\ FetchedInOrder
    /\ Len(all_data) <= SumRows(outcomes, FALSE) + RowsDone

\* C1 amended: the pages 1..N are fetched in increasing order, each exactly
\* once, and the number of accumulated rows is at most the sum of the row
\* counts of the pages whose rows were selected; a page that failed before
\* its rows were selected counts 0, a page that failed inside the row loop
\* counts like any other.
C1_FetchOrderAndRowBound ==
    /\ FetchedInOrder
    /\ Len(all_data) <= SumRows(outcomes, TRUE) + RowsDone
    /\ \A k \in 1..Len(outcomes) :
          outcomes[k].kind \in {"Timeout", "NoTable", "NoRows"}
             => outcomes[k].nrows = 0

\* a run over the whole range in which one page failed and one was
\* extracted to its end, with rows accumulated
C1_Witness ==
    /\ pc = "main"
    /\ max_pages = MaxPages
    /\ all_data # <<>>
    /\ \E k \in 1..Len(outcomes) : Failed(outcomes[k])
    /\ \E k \in 1..Len(outcomes) : outcomes[k].kind = "Ok"

-----------------------------------------------------------------------------
(* C2 *)

\* C2 as stated: after a page that raised Timeout, NoSuchElement or another
\* error, the accumulated rows are those of before the page.
C2_AsStated ==
    (pc = "for" /\ outcomes # <<>> /\ Failed(LastOutcome))
       => all_data = startData

\* C2 amended: after a page that raised Timeout, NoSuchElement or another
\* error, the accumulated rows are those of before the page followed by the
\* rows of the page appended before the error (none when the error came
\* from the fetch or from any step before the row loop), and the loop goes
\* on: it ends only when the range is exhausted.
C2_FailedPageKeepsExtractedRows ==
    /\ (pc = "for" /\ outcomes # <<>> /\ Failed(LastOutcome))
          => /\ all_data = startData
                   \o Extracted(page_num, table, SubSeq(rows, 1, i - 1))
             /\ rows = <<>> => all_data = startData
    /\ ~pending => Len(outcomes) = IF pc = "for" \/ pc \notin InTry
                                   THEN page_num ELSE page_num - 1
    /\ LoopCompleted => page_num = max_pages

\* page 1 failed inside the row loop after a row was appended, and the loop
\* is at page 2
C2_Witness ==
    /\ pc = "get"
    /\ page_num = 2
    /\ Failed(outcomes[1])
    /\ all_data # <<>>

-----------------------------------------------------------------------------
(* C3 *)

\* C3: driver.quit() is called exactly once on every way out of the crawl
\* loop (completion, pages that failed, an exception no handler catches),
\* not before the loop is left, and it is the last call made on the
\* browser: no page is fetched after it.
C3_SessionReleasedOnce ==
    /\ Len(Quits) <= 1
    /\ pc \in InTry \cup {"finally"} => Quits = <<>>
    /\ pc \notin InTry \cup {"finally"}
          => Len(Quits) = 1 /\ trace[Len(trace)] = <<"quit", 0>>

\* an exception escaped the handlers after a page was fetched, and the
\* session is released
C3_Witness ==
    /\ pc = "raised"
    /\ pending
    /\ Fetched # <<>>
    /\ Len(Quits) = 1

-----------------------------------------------------------------------------
(* C4 *)

\* the frame of lines 141-151 was asked for
Built == df # NoFrame

Ragged(hl, data) == \E r \in 1..Len(data) : Len(data[r]) # Len(hl)

\* C4: when the final table is built, a Header whose length differs from
\* the cell count of some accumulated row (any row) gives positional column
\* labels; the Header names the columns only when it is non-empty and as
\* long as every row; and the construction never fails on rows of
\* differing lengths.
C4_AsStated ==
    Built =>
       /\ df.kind # "ValueError"
       /\ (all_data # <<>> /\ Ragged(headers_list, all_data))
             => df.kind = "positional"
       /\ df.kind = "named"
             => headers_list # <<>> /\ ~Ragged(headers_list, all_data)

-----------------------------------------------------------------------------
(* C5 *)

Parsed(o) == o.kind \in {"Ok", "NoRows"}

\* C5 as stated: when page 1 fails and a later page is the first one parsed
\* successfully and has a header row, the Header at the end of the run is
\* that page's header.
C5_AsStated ==
    LoopCompleted =>
       \A k \in 2..Len(outcomes) :
          (/\ Parsed(outcomes[k])
           /\ outcomes[k].hdr # <<>>
           /\ \A j \in 1..(k - 1) : ~Parsed(outcomes[j]))
             => headers_list = outcomes[k].hdr

\* C5 amended: the Header is captured from page 1 only.  It is the header
\* cells of page 1's table when page 1 went through without error, it is
\* empty when page 1 timed out or had no table, and whatever the later
\* pages contain it is never taken from them.
C5_HeaderOnlyFromPageOne ==
    /\ \A c \in 1..Len(headers_list) : headers_list[c][1] = 1
    /\ Len(outcomes) >= 1 =>
          /\ headers_list \in {<<>>, outcomes[1].hdr}
          /\ Parsed(outcomes[1]) => headers_list = outcomes[1].hdr
          /\ outcomes[1].kind \in {"Timeout", "NoTable"} => headers_list = <<>>

\* page 1 failed, page 2 was extracted to its end and has a header row, and
\* the run ends with no Header
C5_Witness ==
    /\ LoopCompleted
    /\ Len(outcomes) = 2
    /\ Failed(outcomes[1])
    /\ outcomes[2].kind = "Ok"
    /\ outcomes[2].hdr # <<>>
    /\ headers_list = <<>>

-----------------------------------------------------------------------------
(* C6 *)

\* C6: the Header is write-once: no step changes headers_list once it is
\* non-empty.
C6_HeaderWriteOnce == [][headers_list # <<>> => headers_list' = headers_list]_vars

\* the header step of page 2 is over, its table offers header cells, and
\* the Header is still the one captured before
C6_Witness ==
    /\ pc = "rows"
    /\ page_num = 2
    /\ HeaderCells(page_num, table) # <<>>
    /\ headers_list # <<>>
    /\ headers_list # HeaderCells(page_num, table)

-----------------------------------------------------------------------------
(* C7 *)

\* the run is over, no interrupt was taken, no row was collected
ZeroRowRunOver == pc \in {"main", "exit", "raised"} /\ ~pending /\ all_data = <<>>

\* C7 as stated: a run that collects no row finishes without error; its
\* output has the Header and no data row when a Header was captured, and is
\* entirely empty only when none was.
C7_AsStated ==
    ZeroRowRunOver =>
       /\ pc # "raised"
       /\ headers_list # <<>> => df.columns = headers_list /\ df.data = <<>>
       /\ df.columns = <<>> => headers_list = <<>>

\* C7 amended: a run that collects no row finishes without error; the table
\* it returns is entirely empty (no column, no row) whether or not a Header
\* was captured, and no file is written.
C7_ZeroRowsGiveEmptyFrame ==
    ZeroRowRunOver =>
       /\ pc # "raised"
       /\ df = EmptyFrame
       /\ output = NoFrame

\* a run that captured a Header and no row has ended
C7_Witness ==
    /\ pc = "exit"
    /\ all_data = <<>>
    /\ headers_list # <<>>

-----------------------------------------------------------------------------
(* C8 *)

Count(s, e) == Cardinality({k \in 1..Len(s) : s[k] = e})

\* C8 as stated: between the fetch of page p and the fetch of page p+1
\* there is exactly one sleep, whatever happened on page p.
C8_AsStated ==
    \A p \in 1..MaxPages :
       Count(trace, <<"get", p + 1>>) > 0 => Count(trace, <<"sleep", p>>) = 1

\* C8 amended: the sleep is taken once, after the rows of the page were
\* extracted, on the pages whose row loop ran to its end; a page that timed
\* out, raised an error, had no table or had no data row is followed by the
\* next fetch without a sleep.  No other call on the browser or the clock
\* comes between the fetch of a page and its sleep.
C8_SleepOnlyAfterExtractedPage ==
    /\ \A p \in 1..Len(outcomes) :
          Count(trace, <<"sleep", p>>) = IF outcomes[p].kind = "Ok" THEN 1 ELSE 0
    /\ \A k \in 1..Len(trace) :
          trace[k][1] = "sleep" => k > 1 /\ trace[k - 1] = <<"get", trace[k][2]>>
    /\ Len(Sleeps) <= Len(outcomes)

\* page 1 timed out and page 2 was fetched with no sleep in between
C8_Witness ==
    /\ Len(Fetched) = 2
    /\ outcomes # <<>>
    /\ outcomes[1].kind = "Timeout"
    /\ Sleeps = <<>>

-----------------------------------------------------------------------------
(* C9 *)

\* C9: when the fetch succeeded and no table with the marker id is in the
\* parsed markup, the step the control thread takes leaves the accumulated
\* rows and the Header as they were, enters neither the header step nor the
\* row steps, and goes back to the loop head with the same page index, from
\* where page i+1 is next.
C9_NoTableSkipsPage ==
    [][(pc = "check" /\ ~table.present /\ ~pending')
          => /\ all_data' = all_data
             /\ headers_list' = headers_list
             /\ rows' = rows /\ i' = i
             /\ pc' = "for"
             /\ page_num' = page_num]_vars

\* page 2 had no table, with a Header and rows collected from page 1, and
\* the loop is back at its head
C9_Witness ==
    /\ pc = "for"
    /\ Len(outcomes) = 2
    /\ outcomes[2].kind = "NoTable"
    /\ headers_list # <<>>
    /\ all_data # <<>>

-----------------------------------------------------------------------------
(* C10 *)

\* C10: with every fetch returning or timing out and no interrupt, the run
\* ends only by returning a table, after the whole range 1..N was fetched
\* and the session released.
C10_AsStated ==
    /\ pc # "raised"
    /\ pc \in {"main", "exit"}
          => /\ Len(Fetched) = max_pages
             /\ Len(Quits) = 1
             /\ Built

-----------------------------------------------------------------------------
(* C11 *)

Range(s) == {s[k] : k \in 1..Len(s)}

\* the cell texts that occur in the accumulated rows
DataTexts == UNION {Range(all_data[k]) : k \in 1..Len(all_data)}

\* the header cells of the tables located so far: those of the finished
\* pages and those of the page in progress
OfferedHeaderTexts ==
    UNION {Range(outcomes[k].hdr) : k \in 1..Len(outcomes)}
       \cup (IF table.present THEN Range(HeaderCells(page_num, table)) ELSE {})

\* C11: the row consumed as the Header is never appended to the accumulated
\* rows, and on every page the header row of the table (its header section,
\* else its first row) is left out of the data rows, with or without a body
\* section.
C11_AsStated ==
    /\ DataTexts \cap Range(headers_list) = {}
    /\ DataTexts \cap OfferedHeaderTexts = {}

-----------------------------------------------------------------------------
(* C12 *)

\* the <tr> a row was extracted from: its page and its index in the table
RowPage(row) == row[1][1]

RowIndex(row) == row[1][2]

\* every row has a cell, and the rows are in the order of their pages and,
\* within a page, of their <tr> in the table
InEncounterOrder(data) ==
    /\ \A k \in 1..Len(data) : data[k] # <<>>
    /\ \A k, l \in 1..Len(data) :
          k < l => \/ RowPage(data[k]) < RowPage(data[l])
                   \/ /\ RowPage(data[k]) = RowPage(data[l])
                      /\ RowIndex(data[k]) < RowIndex(data[l])

\* C12: every step leaves the accumulated rows as they were or extends them
\* at the end (no row is removed, changed or moved), every row in the list
\* has at least one cell, the rows of page i come before those of page j
\* for i < j, and the rows of one page are in the order of the table.
C12_AppendOnlyInOrder ==
    [][IsPrefix(all_data, all_data') /\ InEncounterOrder(all_data')]_vars

\* rows of both pages were accumulated, two of them from one page, and a
\* <tr> without td cells was passed over
C12_Witness ==
    /\ Len(all_data) >= 3
    /\ RowPage(all_data[1]) = 1
    /\ RowPage(all_data[Len(all_data)]) = 2
    /\ pc = "extract" /\ i > Len(rows)
    /\ Len(all_data) - Len(startData) < Len(rows)

====
